---- MODULE Spec2Model ----
(***************************************************************************)
(* Model of the Google OAuth callback and the session-backed               *)
(* authentication routes of tylf-backend (package main, func main).        *)
(*                                                                         *)
(* Shared state is the users table (gorm/postgres) and the session storage *)
(* (fiber session store over postgres).  Fiber serves every request in its *)
(* own goroutine, so a handler is atomic only between two accesses to      *)
(* shared state: the callback and the logout handlers are therefore cut at *)
(* their database / session-storage accesses, and each request slot keeps  *)
(* the handler's local variables and its position.                         *)
(***************************************************************************)
EXTENDS Integers, Sequences, FiniteSets, TLC

\* ---- bounds and input domains ----

\* Largest number of rows the users table may hold.
MaxUsers == 2

\* Requests that may be in flight at the same time.
Reqs == {"r1", "r2"}

\* Browser sessions (values of the session cookie).
SessionIDs == {"s1"}

\* Values of the query parameter "code".
Codes == {"", "abc123"}

\* Access tokens the token endpoint may return.
Tokens == {"tok1"}

\* Profiles the userinfo endpoint may return: one account is seen under two
\* names, a second account has another email.
Infos ==
    {[Name |-> "A", Email |-> "a@b.com"],
     [Name |-> "B", Email |-> "a@b.com"],
     [Name |-> "C", Email |-> "c@d.com"]}

\* Outcomes of an outbound HTTP exchange: client.Do returns an error, the
\* status is not 200, the body does not decode, or a 200 with a valid body.
HttpOutcomes == {"neterr", "non200", "badjson", "ok"}

VARIABLES
    users,      \* the users table: a sequence of User rows ordered by primary key
    storage,    \* session storage: SessionIDs -> {} (no user_id) or {id}
    req,        \* per request slot: the running handler's locals and position
    loggedOut,  \* history: the session's last successful write was a logout
    lastSet     \* history: the user_id set by the last successful callback
                \* on the session since its last successful logout, {} if none

vars == <<users, storage, req, loggedOut, lastSet>>

\* ---- data ----

\* The zero value of struct User (var user User).
ZeroUser == [ID |-> 0, Name |-> "", Email |-> "", Password |-> "", Phone |-> 0]

\* The zero value of struct ResponseGoogleInfo (the fields the handler reads).
ZeroInfo == [Name |-> "", Email |-> ""]

\* A request slot in which no handler runs.  tokenResp and userResp are the
\* outcomes of the two outbound exchanges ("" while not requested), sessErr
\* is the err of store.Get, userID the handler's sess.Get("user_id"), and
\* matched the history of the lookup: a row with the profile's email was
\* stored when the handler looked it up.  lookupErr is checkExist.Error !=
\* nil, saveErr the err of sess.Save, and data the "data" of the callback's
\* 200 response.
Idle ==
    [op |-> "none", pc |-> "idle", sid |-> "", code |-> "",
     tokenResp |-> "", userResp |-> "",
     accessToken |-> "", userInfo |-> ZeroInfo,
     user |-> ZeroUser, newUser |-> ZeroUser, matched |-> FALSE,
     lookupErr |-> FALSE, sessErr |-> FALSE, saveErr |-> FALSE,
     userID |-> {}, status |-> 0, error |-> "", data |-> ZeroUser]

\* A fresh invocation of handler op for the browser session sid.
Start(op, sid) == [Idle EXCEPT !.op = op, !.sid = sid]

\* The handler returns a response with this status and error message.
Respond(q, status, error) ==
    [q EXCEPT !.pc = "done", !.status = status, !.error = error]

\* store.Get failed and returned a nil *Session, and the handler calls
\* sess.Get on it before looking at err: the nil dereference panics and no
\* response is written.
Panic(q) ==
    [q EXCEPT !.pc = "done", !.sessErr = TRUE, !.status = 0, !.error = "panic"]

\* ---- credential store (gorm) ----

Min(S) == CHOOSE x \in S : \A y \in S : x <= y

\* Primary keys of the rows whose email is e.
Matching(e) == {i \in 1..Len(users) : users[i].Email = e}

\* db.Where("email = ?", e).First(&dest): the row with that email and the
\* smallest primary key; on any error dest keeps its zero value.
\* notFound tells gorm.ErrRecordNotFound from a database error.
First(e, dbErr) ==
    IF dbErr \/ Matching(e) = {}
    THEN [err |-> TRUE, notFound |-> ~dbErr, user |-> ZeroUser]
    ELSE [err |-> FALSE, notFound |-> FALSE, user |-> users[Min(Matching(e))]]

\* NewUser with the profile's name left out of the literal.
NewUserNoName(info) ==
    [ID |-> 0, Name |-> "", Email |-> info.Email, Password |-> "", Phone |-> 0]

\* The newUser literal built from the profile.
NewUser(info) ==
    [ID |-> 0, Name |-> info.Name, Email |-> info.Email,
     Password |-> "", Phone |-> 0]

\* db.Create(&u): the row as inserted, with the generated primary key.
Created(u) == [u EXCEPT !.ID = Len(users) + 1]

\* ---- session store (fiber session) ----

\* SessGet taking a stored zero user_id for a missing key.
SessGetZeroIsNil(sid) == IF storage[sid] = {0} THEN {} ELSE storage[sid]

\* SessGet reading a missing key as the zero int instead of nil.
SessGetZero(sid) == IF storage[sid] = {} THEN {0} ELSE storage[sid]

\* sess.Get("user_id") on the session loaded for sid: {} stands for nil.
SessGet(sid) == storage[sid]

\* The value the callback passes to sess.Set("user_id", ...).
SessionValue(q) == q.user.ID

\* Save leaving a user_id that is already stored in place.
SaveKeepsExisting(sid, data, saveErr) ==
    IF saveErr \/ (storage[sid] # {} /\ data # {})
    THEN storage
    ELSE [storage EXCEPT ![sid] = data]

\* Save writing nothing when the data map is empty.
SaveSkipsEmpty(sid, data, saveErr) ==
    IF saveErr \/ data = {} THEN storage ELSE [storage EXCEPT ![sid] = data]

\* Save whose write reaches the storage although it reports an error.
SaveDespiteError(sid, data, saveErr) == [storage EXCEPT ![sid] = data]

\* sess.Save(): the storage after the write, or unchanged when it fails.
Save(sid, data, saveErr) ==
    IF saveErr THEN storage ELSE [storage EXCEPT ![sid] = data]

\* ---- request slots ----

\* No handler has returned without its response having been written out.
\* Writing a response touches no shared state, so it is taken as the step
\* right after the handler's return: a returned request is always observed
\* together with the users table and session storage it left behind.
Quiet == \A r \in Reqs : req[r].pc # "done"

\* Slot r can take a new request.
Free(r) == Quiet /\ req[r].pc = "idle"

\* Slot r's handler is at position pc.
At(r, pc) == Quiet /\ req[r].pc = pc

\* The response has been written; the slot serves the next request.
Finish(r) ==
    /\ req[r].pc = "done"
    /\ req' = [req EXCEPT ![r] = Idle]
    /\ UNCHANGED <<users, storage, loggedOut, lastSet>>

\* ---- GET /auth/google/callback ----

\* The handler without its check of the query parameter.
CodeMissingNever(code) == FALSE

\* code == "".
CodeMissing(code) == code = ""

\* Step 1 without the check of tokenResp.StatusCode.
TokenErrNoStatus(how) ==
    CASE how = "neterr" -> "neterr"
      [] how = "badjson" -> "badjson"
      [] OTHER -> ""

\* Step 1, the token exchange: the error it ends the handler with, "" if none.
TokenErr(how) ==
    CASE how = "neterr" -> "neterr"
      [] how = "non200" -> "failed to get access token"
      [] how = "badjson" -> "badjson"
      [] OTHER -> ""

\* Step 2, the profile fetch: the error it ends the handler with, "" if none.
UserErr(how) ==
    CASE how = "neterr" -> "neterr"
      [] how = "non200" -> "failed to fetch user info"
      [] how = "badjson" -> "badjson"
      [] OTHER -> ""

\* tokenData after step 1: the token of a 200 body, the zero value otherwise.
Decoded(how, tok) == IF how = "ok" THEN tok ELSE ""

\* userInfo after step 2: the profile of a 200 body, the zero value otherwise.
DecodedInfo(how, info) == IF how = "ok" THEN info ELSE ZeroInfo

\* The handler's locals after step 1.
AfterToken(s, code, thow, tok) ==
    [Start("callback", s) EXCEPT !.code = code, !.tokenResp = thow,
        !.accessToken = Decoded(thow, tok)]

\* The handler's locals after step 2.
AfterProfile(s, code, thow, tok, uhow, info) ==
    [AfterToken(s, code, thow, tok) EXCEPT !.userResp = uhow,
        !.userInfo = DecodedInfo(uhow, info)]

\* The handler's locals after db.Where("email = ?", userInfo.Email).First(&user).
AfterLookup(q, checkExist) ==
    [q EXCEPT !.user = checkExist.user,
              !.lookupErr = checkExist.err,
              !.matched = Matching(q.userInfo.Email) # {}]

\* The branch that creates only when the error is gorm.ErrRecordNotFound.
TakesCreateNotFoundOnly(checkExist) == checkExist.err /\ checkExist.notFound

\* if checkExist.Error != nil: the handler takes the create branch.
TakesCreate(checkExist) == checkExist.err

\* The "data" of the 200 response: the handler's user variable.
ResponseData(q) == q.user

\* code == "": 400 before any outbound request.
CallbackMissingCode(r) ==
    /\ Free(r)
    /\ \E s \in SessionIDs, code \in Codes :
        /\ CodeMissing(code)
        /\ req' = [req EXCEPT ![r] =
                     Respond([Start("callback", s) EXCEPT !.code = code],
                             400, "Missing code")]
    /\ UNCHANGED <<users, storage, loggedOut, lastSet>>

\* Step 1 fails: the token exchange errors, answers non-200 or does not decode.
CallbackTokenFail(r) ==
    /\ Free(r)
    /\ \E s \in SessionIDs, code \in Codes :
        /\ ~CodeMissing(code)
        /\ \E thow \in HttpOutcomes, tok \in Tokens :
            /\ TokenErr(thow) # ""
            /\ req' = [req EXCEPT ![r] =
                         Respond(AfterToken(s, code, thow, tok),
                                 500, TokenErr(thow))]
    /\ UNCHANGED <<users, storage, loggedOut, lastSet>>

\* Step 2 fails: the profile fetch errors, answers non-200 or does not decode.
CallbackProfileFail(r) ==
    /\ Free(r)
    /\ \E s \in SessionIDs, code \in Codes :
        /\ ~CodeMissing(code)
        /\ \E thow \in HttpOutcomes, tok \in Tokens :
            /\ TokenErr(thow) = ""
            /\ \E uhow \in HttpOutcomes, info \in Infos :
                /\ UserErr(uhow) # ""
                /\ req' = [req EXCEPT ![r] =
                             Respond(AfterProfile(s, code, thow, tok, uhow, info),
                                     500, UserErr(uhow))]
    /\ UNCHANGED <<users, storage, loggedOut, lastSet>>

\* Both exchanges succeed and the lookup returns an error (no row, or a
\* database error): the handler goes on to create a user.
CallbackLookupErr(r) ==
    /\ Free(r)
    /\ \E s \in SessionIDs, code \in Codes :
        /\ ~CodeMissing(code)
        /\ \E thow \in HttpOutcomes, tok \in Tokens :
            /\ TokenErr(thow) = ""
            /\ \E uhow \in HttpOutcomes, info \in Infos :
                /\ UserErr(uhow) = ""
                /\ \E dbErr \in BOOLEAN :
                    LET q == AfterProfile(s, code, thow, tok, uhow, info)
                        checkExist == First(q.userInfo.Email, dbErr)
                    IN /\ TakesCreate(checkExist)
                       /\ req' = [req EXCEPT ![r] =
                            [AfterLookup(q, checkExist) EXCEPT !.pc = "create"]]
    /\ UNCHANGED <<users, storage, loggedOut, lastSet>>

\* Both exchanges succeed and the lookup returns no error: the row is read a second
\* time into existingUser, which is dropped.  Rows are never removed, so the
\* second read sees the row the first one saw and fails only on a database
\* error: the two reads are one step.
CallbackLookupFound(r) ==
    /\ Free(r)
    /\ \E s \in SessionIDs, code \in Codes :
        /\ ~CodeMissing(code)
        /\ \E thow \in HttpOutcomes, tok \in Tokens :
            /\ TokenErr(thow) = ""
            /\ \E uhow \in HttpOutcomes, info \in Infos :
                /\ UserErr(uhow) = ""
                /\ \E dbErr \in BOOLEAN, dbErr2 \in BOOLEAN :
                    LET q == AfterProfile(s, code, thow, tok, uhow, info)
                        checkExist == First(q.userInfo.Email, dbErr)
                        again == First(q.userInfo.Email, dbErr2)
                    IN /\ ~TakesCreate(checkExist)
                       /\ req' = [req EXCEPT ![r] =
                            IF again.err
                            THEN Respond(AfterLookup(q, checkExist), 500, "dberr")
                            ELSE [AfterLookup(q, checkExist) EXCEPT
                                      !.pc = "session"]]
    /\ UNCHANGED <<users, storage, loggedOut, lastSet>>

\* db.Create as an insert that does nothing when the email is already stored
\* and hands back the stored row.
CallbackCreateOnConflictNothing(r) ==
    /\ At(r, "create")
    /\ LET same == Matching(req[r].userInfo.Email)
           row == Created(NewUser(req[r].userInfo))
       IN IF same # {}
          THEN /\ UNCHANGED users
               /\ req' = [req EXCEPT ![r] =
                            [req[r] EXCEPT !.newUser = users[Min(same)],
                                           !.pc = "session"]]
          ELSE /\ Len(users) < MaxUsers
               /\ users' = Append(users, row)
               /\ req' = [req EXCEPT ![r] =
                            [req[r] EXCEPT !.newUser = row, !.pc = "session"]]
    /\ UNCHANGED <<storage, loggedOut, lastSet>>

\* checkExist.Error != nil: db.Create(&newUser), which may fail.
CallbackCreate(r) ==
    /\ At(r, "create")
    /\ \E dbErr \in BOOLEAN :
        IF dbErr
        THEN /\ req' = [req EXCEPT ![r] = Respond(req[r], 500, "dberr")]
             /\ UNCHANGED users
        ELSE /\ Len(users) < MaxUsers
             /\ LET row == Created(NewUser(req[r].userInfo))
                IN /\ users' = Append(users, row)
                   /\ req' = [req EXCEPT ![r] =
                                [req[r] EXCEPT !.newUser = row, !.pc = "session"]]
    /\ UNCHANGED <<storage, loggedOut, lastSet>>

\* store.Get, sess.Set("user_id", user.ID), sess.Save and the 200 response.
\* The loaded data is only overwritten, so the read and the write are one step.
CallbackSession(r) ==
    /\ At(r, "session")
    /\ \E getErr \in BOOLEAN, saveErr \in BOOLEAN :
        LET q == req[r] IN
        IF getErr
        THEN /\ req' = [req EXCEPT ![r] =
                          Respond([q EXCEPT !.sessErr = TRUE], 500,
                                  "Failed to get session")]
             /\ UNCHANGED <<storage, loggedOut, lastSet>>
        ELSE /\ storage' = Save(q.sid, {SessionValue(q)}, saveErr)
             /\ req' = [req EXCEPT ![r] =
                          IF saveErr
                          THEN Respond([q EXCEPT !.saveErr = TRUE], 500,
                                       "Failed to save session")
                          ELSE Respond([q EXCEPT !.data = ResponseData(q)],
                                       200, "")]
             /\ loggedOut' = IF saveErr THEN loggedOut
                             ELSE [loggedOut EXCEPT ![q.sid] = FALSE]
             /\ lastSet' = IF saveErr THEN lastSet
                           ELSE [lastSet EXCEPT ![q.sid] = {SessionValue(q)}]
    /\ UNCHANGED users

\* ---- GET /login ----

\* sess.Get is called before err is checked: a failed store.Get panics;
\* otherwise redirect to /protected or render the login page.
Login(r) ==
    /\ Free(r)
    /\ \E s \in SessionIDs, getErr \in BOOLEAN :
        LET q == Start("login", s) IN
        req' = [req EXCEPT ![r] =
                  IF getErr THEN Panic(q)
                  ELSE IF SessGet(s) # {}
                       THEN Respond([q EXCEPT !.userID = SessGet(s)], 302, "")
                       ELSE Respond(q, 200, "")]
    /\ UNCHANGED <<users, storage, loggedOut, lastSet>>

\* ---- GET /protected ----

Protected(r) ==
    /\ Free(r)
    /\ \E s \in SessionIDs, getErr \in BOOLEAN :
        LET q == Start("protected", s) IN
        req' = [req EXCEPT ![r] =
                  IF getErr THEN Panic(q)
                  ELSE IF SessGet(s) = {}
                       THEN Respond(q, 401, "Unauthorized")
                       ELSE Respond([q EXCEPT !.userID = SessGet(s)], 200, "")]
    /\ UNCHANGED <<users, storage, loggedOut, lastSet>>

\* ---- GET /logout ----

\* store.Get and the user_id check.
LogoutGet(r) ==
    /\ Free(r)
    /\ \E s \in SessionIDs, getErr \in BOOLEAN :
        LET q == Start("logout", s) IN
        req' = [req EXCEPT ![r] =
                  IF getErr THEN Panic(q)
                  ELSE IF SessGet(s) = {}
                       THEN Respond(q, 401, "Unauthorized")
                       ELSE [q EXCEPT !.userID = SessGet(s), !.pc = "save"]]
    /\ UNCHANGED <<users, storage, loggedOut, lastSet>>

\* sess.Delete("user_id") and sess.Save().
LogoutSave(r) ==
    /\ At(r, "save")
    /\ \E saveErr \in BOOLEAN :
        /\ storage' = Save(req[r].sid, {}, saveErr)
        /\ req' = [req EXCEPT ![r] =
                     IF saveErr
                     THEN Respond([req[r] EXCEPT !.saveErr = TRUE], 500,
                                  "Failed to save session")
                     ELSE Respond(req[r], 200, "")]
        /\ loggedOut' = IF saveErr THEN loggedOut
                        ELSE [loggedOut EXCEPT ![req[r].sid] = TRUE]
        /\ lastSet' = IF saveErr THEN lastSet
                      ELSE [lastSet EXCEPT ![req[r].sid] = {}]
    /\ UNCHANGED users

\* ---- specification ----

Init ==
    /\ users = <<>>
    /\ storage = [s \in SessionIDs |-> {}]
    /\ req = [r \in Reqs |-> Idle]
    /\ loggedOut = [s \in SessionIDs |-> FALSE]
    /\ lastSet = [s \in SessionIDs |-> {}]

Next ==
    \E r \in Reqs :
        \/ CallbackMissingCode(r)
        \/ CallbackTokenFail(r)
        \/ CallbackProfileFail(r)
        \/ CallbackLookupErr(r)
        \/ CallbackLookupFound(r)
        \/ CallbackCreate(r)
        \/ CallbackSession(r)
        \/ Login(r)
        \/ Protected(r)
        \/ LogoutGet(r)
        \/ LogoutSave(r)
        \/ Finish(r)

Spec == Init /\ [][Next]_vars

\* ---- properties ----

\* C1: after every successful HandleCallback (response 200) the session's
\* user_id is the id of a User row stored for the profile's email, whether the
\* row existed or was created by this callback, and never the zero id.
C1_SessionHoldsStoredUserId ==
    \A r \in Reqs :
        (req[r].pc = "done" /\ req[r].op = "callback" /\ req[r].status = 200)
        => /\ storage[req[r].sid] # {0}
           /\ \E i \in Matching(req[r].userInfo.Email) :
                  storage[req[r].sid] = {users[i].ID}

\* C2: the users table never holds two rows with the same email, and every
\* email of a successfully completed HandleCallback has exactly one row.
C2_OneUserPerEmail ==
    /\ \A i, j \in 1..Len(users) : users[i].Email = users[j].Email => i = j
    /\ \A r \in Reqs :
        (req[r].pc = "done" /\ req[r].op = "callback" /\ req[r].status = 200)
        => Cardinality(Matching(req[r].userInfo.Email)) = 1

\* C3: a HandleCallback whose profile email matched a stored row when it
\* looked the email up creates no row, and the row it found stays as it was.
C3_MatchCreatesNothing ==
    \A r \in Reqs :
        (req[r].op = "callback" /\ req[r].matched)
        => /\ req[r].newUser = ZeroUser
           /\ req[r].user.ID # 0 => users[req[r].user.ID] = req[r].user

\* C4: CheckProtected and Logout invoked on a retrieved session that has no
\* user_id answer 401 Unauthorized and leave session storage and users table
\* unchanged.
C4_NoUserIdUnauthorized ==
    [][\A r \in Reqs :
        (/\ req[r].pc = "idle"
         /\ req'[r].op \in {"protected", "logout"}
         /\ ~req'[r].sessErr
         /\ storage[req'[r].sid] = {})
        => /\ req'[r].pc = "done"
           /\ req'[r].status = 401
           /\ req'[r].error = "Unauthorized"
           /\ storage' = storage
           /\ users' = users]_vars

\* A Logout on an anonymous session has been refused.
C4_Witness ==
    \E r \in Reqs :
        /\ req[r].pc = "done" /\ req[r].op = "logout"
        /\ req[r].status = 401 /\ storage[req[r].sid] = {}

\* C5: once a Logout has succeeded on a session, and until the next successful
\* HandleCallback on it, every CheckProtected on the retrieved session answers
\* 401 Unauthorized.
C5_ProtectedFailsAfterLogout ==
    \A r \in Reqs :
        (/\ req[r].pc = "done" /\ req[r].op = "protected"
         /\ ~req[r].sessErr /\ loggedOut[req[r].sid])
        => req[r].status = 401 /\ req[r].error = "Unauthorized"

\* A CheckProtected has been refused on a session whose last successful
\* write was a logout.
C5_Witness ==
    \E r \in Reqs :
        /\ req[r].pc = "done" /\ req[r].op = "protected"
        /\ loggedOut[req[r].sid] /\ req[r].status = 401

\* C6: a session goes from no user_id to a user_id only in the step in which
\* a HandleCallback on that session returns 200.
C6_AuthenticatedOnlyByCallback ==
    [][\A s \in SessionIDs :
        (storage[s] = {} /\ storage'[s] # {})
        => \E r \in Reqs :
              /\ req[r].op = "callback" /\ req[r].sid = s
              /\ req[r].pc = "session"
              /\ req'[r].pc = "done" /\ req'[r].status = 200]_vars

\* A HandleCallback has returned 200 and the session carries the user_id it
\* set.
C6_Witness ==
    \E r \in Reqs :
        /\ req[r].pc = "done" /\ req[r].op = "callback" /\ req[r].status = 200
        /\ storage[req[r].sid] = {req[r].user.ID}

\* C7: HandleCallback with an empty code returns 400 "Missing code" at once,
\* having made no token and no profile request, with the users table and
\* the session storage unchanged.
C7_MissingCode ==
    [][\A r \in Reqs :
        (req[r].pc = "idle" /\ req'[r].op = "callback" /\ req'[r].code = "")
        => /\ req'[r].pc = "done"
           /\ req'[r].status = 400
           /\ req'[r].error = "Missing code"
           /\ req'[r].tokenResp = "" /\ req'[r].userResp = ""
           /\ users' = users
           /\ storage' = storage]_vars

\* A HandleCallback with an empty code has returned.
C7_Witness ==
    \E r \in Reqs :
        /\ req[r].pc = "done" /\ req[r].op = "callback"
        /\ req[r].code = "" /\ req[r].status = 400

\* C8: when the token endpoint answers non-200, HandleCallback returns the
\* token-exchange error without calling the profile endpoint, creates no
\* user and leaves the session unchanged.
C8_TokenNon200 ==
    [][\A r \in Reqs :
        (/\ req[r].pc = "idle" /\ req'[r].op = "callback"
         /\ req'[r].tokenResp = "non200")
        => /\ req'[r].pc = "done"
           /\ req'[r].status = 500
           /\ req'[r].error = "failed to get access token"
           /\ req'[r].userResp = ""
           /\ req'[r].newUser = ZeroUser
           /\ users' = users
           /\ storage' = storage]_vars

\* A HandleCallback has returned on a non-200 token response.
C8_Witness ==
    \E r \in Reqs :
        /\ req[r].pc = "done" /\ req[r].op = "callback"
        /\ req[r].tokenResp = "non200" /\ req[r].status = 500

\* C9: no step of a HandleCallback other than the one returning 200 writes
\* the session storage: a callback that fails at any step leaves the
\* persisted user_id (or its absence) as it was.
C9_FailedCallbackKeepsSession ==
    [][\A r \in Reqs :
        (/\ req'[r] # req[r]
         /\ req'[r].op = "callback"
         /\ ~(req'[r].pc = "done" /\ req'[r].status = 200))
        => storage' = storage]_vars

\* A HandleCallback has failed at the session save on a session that still
\* carries the user_id of an earlier login, not the one it tried to set.
C9_Witness ==
    \E r \in Reqs :
        /\ req[r].pc = "done" /\ req[r].op = "callback"
        /\ req[r].error = "Failed to save session"
        /\ storage[req[r].sid] # {}
        /\ storage[req[r].sid] # {req[r].user.ID}

C11_ResponseCarriesResolvedUser ==
    \A r \in Reqs :
        (req[r].pc = "done" /\ req[r].op = "callback" /\ req[r].status = 200)
        => /\ req[r].code # ""
           /\ req[r].accessToken \in Tokens
           /\ req[r].data.Email = req[r].userInfo.Email
           /\ \E i \in Matching(req[r].userInfo.Email) : users[i] = req[r].data

\* C12: StartLogin on a retrieved session answers with the redirect when the
\* session has a user_id and renders the login page when it has none; it
\* makes no token or profile request and leaves session storage and users
\* table unchanged.
C12_LoginRedirectsOrRenders ==
    [][\A r \in Reqs :
        (req[r].pc = "idle" /\ req'[r].op = "login" /\ ~req'[r].sessErr)
        => /\ req'[r].pc = "done"
           /\ storage[req'[r].sid] # {} => req'[r].status = 302
           /\ storage[req'[r].sid] = {} => req'[r].status = 200
           /\ req'[r].tokenResp = "" /\ req'[r].userResp = ""
           /\ storage' = storage
           /\ users' = users]_vars

\* A StartLogin on an authenticated session has answered with the redirect.
C12_Witness ==
    \E r \in Reqs :
        /\ req[r].pc = "done" /\ req[r].op = "login"
        /\ req[r].status = 302 /\ storage[req[r].sid] # {}

\* C13: when store.Get fails, GET /login, GET /protected and GET /logout
\* return a response with status 500.
C13_SessionErrorAnswers500 ==
    \A r \in Reqs :
        (/\ req[r].pc = "done"
         /\ req[r].op \in {"login", "protected", "logout"}
         /\ req[r].sessErr)
        => req[r].status = 500

\* C14: when two HandleCallbacks for the same email have both looked the
\* email up while no row was stored and both have created their row, the
\* users table holds two rows for that email.
C14_RaceCreatesDuplicate ==
    \A r1, r2 \in Reqs :
        (/\ r1 # r2
         /\ req[r1].op = "callback" /\ req[r2].op = "callback"
         /\ req[r1].userInfo.Email = req[r2].userInfo.Email
         /\ ~req[r1].matched /\ ~req[r2].matched
         /\ req[r1].newUser.ID # 0 /\ req[r2].newUser.ID # 0)
        => /\ req[r1].newUser.ID # req[r2].newUser.ID
           /\ users[req[r1].newUser.ID] = req[r1].newUser
           /\ users[req[r2].newUser.ID] = req[r2].newUser
           /\ Cardinality(Matching(req[r1].userInfo.Email)) >= 2

\* Two interleaved HandleCallbacks for one unseen email have both created
\* their row.
C14_Witness ==
    \E r1, r2 \in Reqs :
        /\ r1 # r2
        /\ req[r1].op = "callback" /\ req[r2].op = "callback"
        /\ req[r1].userInfo.Email = req[r2].userInfo.Email
        /\ ~req[r1].matched /\ ~req[r2].matched
        /\ req[r1].newUser.ID # 0 /\ req[r2].newUser.ID # 0
        /\ Cardinality(Matching(req[r1].userInfo.Email)) = 2

C16_FailedLogoutKeepsSession ==
    [][\A r \in Reqs :
        /\ (req[r].pc = "save" /\ req'[r].saveErr)
           => /\ req'[r].pc = "done"
              /\ req'[r].status = 500
              /\ req'[r].error = "Failed to save session"
              /\ storage' = storage
        /\ (/\ req[r].pc = "idle" /\ req'[r].op = "protected"
            /\ ~req'[r].sessErr /\ storage[req'[r].sid] # {})
           => /\ req'[r].status = 200
              /\ req'[r].userID = storage[req'[r].sid]]_vars

\* A Logout has failed at the save and the session still carries the
\* user_id the handler read.
C16_Witness ==
    \E r \in Reqs :
        /\ req[r].pc = "done" /\ req[r].op = "logout" /\ req[r].saveErr
        /\ req[r].status = 500
        /\ storage[req[r].sid] = req[r].userID

\* C17: a HandleCallback that returns 200 leaves a user_id in the session,
\* also the zero id of a just created user; as long as a callback's user_id
\* is set, a CheckProtected on the retrieved session returns 200 and a Logout
\* is not refused and, its save succeeding, returns 200.
C17_AuthenticatedAfterCallback ==
    [][\A r \in Reqs :
        /\ (req[r].pc = "session" /\ req'[r].status = 200)
           => storage'[req[r].sid] # {} /\ lastSet'[req[r].sid] # {}
        /\ (/\ req[r].pc = "idle" /\ req'[r].op = "protected"
            /\ ~req'[r].sessErr /\ lastSet[req'[r].sid] # {})
           => req'[r].status = 200
        /\ (/\ req[r].pc = "idle" /\ req'[r].op = "logout"
            /\ ~req'[r].sessErr /\ lastSet[req'[r].sid] # {})
           => req'[r].pc = "save"
        /\ (req[r].pc = "save" /\ req'[r].pc = "done" /\ ~req'[r].saveErr)
           => req'[r].status = 200]_vars

\* A CheckProtected has returned 200 on the session of a just created user,
\* whose user_id is the zero id.
C17_Witness ==
    \E r \in Reqs :
        /\ req[r].pc = "done" /\ req[r].op = "protected"
        /\ req[r].status = 200
        /\ req[r].userID = {0} /\ lastSet[req[r].sid] = {0}

\* C18: a HandleCallback that returns 200 writes its user_id whatever the
\* session held, and the user_id a CheckProtected returns is the one set by
\* the last successful HandleCallback on the session since its last
\* successful Logout.
C18_ProtectedReturnsLastSet ==
    [][\A r \in Reqs :
        /\ (req[r].pc = "session" /\ req'[r].status = 200)
           => storage'[req[r].sid] = {req[r].user.ID}
        /\ (/\ req[r].pc = "idle" /\ req'[r].op = "protected"
            /\ req'[r].status = 200)
           => /\ req'[r].userID # {}
              /\ req'[r].userID = lastSet[req'[r].sid]]_vars

\* A HandleCallback has returned 200 and replaced the user_id that a Logout
\* still in flight had read from the session.
C18_Witness ==
    \E r, l \in Reqs :
        /\ req[r].pc = "done" /\ req[r].op = "callback" /\ req[r].status = 200
        /\ req[l].op = "logout" /\ req[l].pc = "save"
        /\ req[l].sid = req[r].sid
        /\ req[l].userID # {req[r].user.ID}
        /\ storage[req[r].sid] = {req[r].user.ID}

====
